---------------------------- MODULE Spec2Model ----------------------------
(***************************************************************************)
(* A model of OpenFluke/discover: the delimiter-framed wire codec          *)
(* (sendMsg / readMsg), the per-pod handshake (ScanPod) and the scan       *)
(* orchestrator with its registry (Discover.ScanAll).                      *)
(*                                                                         *)
(* A text on the wire is a sequence of symbols.  A one-character symbol    *)
(* ("{", "-", " ", "1", ...) is one byte; a longer symbol ("'cubes'",      *)
(* "auth_", "null", ...) stands for the run of bytes it spells, with '     *)
(* written for the double quote, and holds none of the bytes a delimiter   *)
(* of the model is made of.                                                *)
(***************************************************************************)
EXTENDS Integers, Sequences, FiniteSets, TLC

VARIABLES
    cfg,          \* Discover.Config
    Results,      \* Discover.Results
    Planets,      \* Discover.Planets : name -> PlanetRecord
    Cubes,        \* Discover.Cubes   : cube name -> host
    mu,           \* Discover.mu      : "free" or its holder
    mpc,          \* position of the caller of ScanAll
    hi,           \* ScanAll: index of the host being launched (1-based)
    pi,           \* ScanAll: pod index i of the inner loop
    tasks,        \* ScanAll: the goroutines launched by this call, in launch order
    wg,           \* ScanAll: the WaitGroup counter
    resultsChan,  \* ScanAll: the buffered channel's content
    chanClosed,   \* ScanAll: close(resultsChan) has run
    cur,          \* ScanAll: the result received by the range loop, being merged
    scansLeft,    \* how many more ScanAll calls the caller will make
    hist,         \* history: what the registry was at the start of the call, who wrote what
    pod,          \* one ScanPod invocation followed step by step
    codec         \* one sendMsg / readMsg round trip

vars == <<cfg, Results, Planets, Cubes, mu, mpc, hi, pi, tasks, wg, resultsChan,
          chanClosed, cur, scansLeft, hist, pod, codec>>

scanVars == <<cfg, Results, Planets, Cubes, mu, mpc, hi, pi, tasks, wg, resultsChan,
              chanClosed, cur, scansLeft, hist>>

-----------------------------------------------------------------------------
(* Bounds of the model.                                                    *)

MaxTasks == 3        \* a scan has at most this many (host, pod index) pairs
MaxScans == 2        \* ScanAll calls on one registry
MaxDelimLen == 2     \* length of a delimiter of the round trip
MaxPayloadLen == 3   \* length of a payload of the round trip

-----------------------------------------------------------------------------
(* Strings: strings.Contains, strings.ReplaceAll(s, old, ""),              *)
(* strings.TrimSpace.                                                      *)

Space == {" ", "\n"}

IsPrefix(p, s) == Len(p) <= Len(s) /\ SubSeq(s, 1, Len(p)) = p

Contains(s, sub) ==
    \E i \in 1..(Len(s) - Len(sub) + 1) : SubSeq(s, i, i + Len(sub) - 1) = sub

\* Index of the first occurrence of sub in s, 0 when there is none.
Index(s, sub) ==
    LET is == {i \in 1..(Len(s) - Len(sub) + 1) : SubSeq(s, i, i + Len(sub) - 1) = sub}
    IN  IF is = {} THEN 0 ELSE CHOOSE i \in is : \A j \in is : i <= j

\* strings.ReplaceAll(s, old, ""): the occurrences are removed from left to right.
RECURSIVE ReplaceAll(_, _)
ReplaceAll(s, old) ==
    IF old = <<>> \/ Index(s, old) = 0 THEN s
    ELSE SubSeq(s, 1, Index(s, old) - 1)
         \o ReplaceAll(SubSeq(s, Index(s, old) + Len(old), Len(s)), old)

RECURSIVE TrimLeft(_)
TrimLeft(s) == IF s # <<>> /\ Head(s) \in Space THEN TrimLeft(Tail(s)) ELSE s

RECURSIVE TrimRight(_)
TrimRight(s) ==
    IF s # <<>> /\ s[Len(s)] \in Space THEN TrimRight(SubSeq(s, 1, Len(s) - 1)) ELSE s

TrimSpace(s) == TrimRight(TrimLeft(s))

RECURSIVE Concat(_)
Concat(ss) == IF ss = <<>> THEN <<>> ELSE Head(ss) \o Concat(Tail(ss))

\* Index of the first occurrence of byte c in s, 0 when there is none.
IndexByte(s, c) == Index(s, <<c>>)

-----------------------------------------------------------------------------
(* The wire codec.                                                         *)

\* sendMsg: the bytes conn.Write is given.
Framed(msg, delim) == msg \o delim

(* The loop of readMsg over one bufio.Reader.  segs are the byte runs the    *)
(* successive conn.Read calls return (a Read takes whatever has arrived),    *)
(* next the index of the first run not yet taken from the connection, end    *)
(* what the Read after the last run meets: "timeout", the read deadline, or  *)
(* "eof".  buf is the bytes.Buffer, rb the bytes the bufio.Reader has taken   *)
(* from the connection and not yet returned.                                 *)
\* A loop that appends everything a Read returned before it looks for the
\* delimiter.
RECURSIVE ReadLoopWholeRead(_, _, _, _, _, _)
ReadLoopWholeRead(buf, rb, segs, next, end, delim) ==
    IF rb # <<>> THEN
        IF Contains(buf \o rb, delim)
        THEN [buf |-> buf \o rb, lost |-> <<>>, next |-> next, stop |-> "delim"]
        ELSE ReadLoopWholeRead(buf \o rb, <<>>, segs, next, end, delim)
    ELSE IF next <= Len(segs) THEN
        ReadLoopWholeRead(buf, segs[next], segs, next + 1, end, delim)
    ELSE [buf |-> buf, lost |-> <<>>, next |-> next, stop |-> end]

RECURSIVE ReadLoop(_, _, _, _, _, _)
ReadLoop(buf, rb, segs, next, end, delim) ==
    LET pos == IndexByte(rb, delim[Len(delim)]) IN
    IF pos > 0 THEN
        \* ReadString returns the chunk up to the byte, err = nil
        LET nbuf == buf \o SubSeq(rb, 1, pos)
            nrb == SubSeq(rb, pos + 1, Len(rb))
        IN  IF Contains(nbuf, delim)
            THEN [buf |-> nbuf, lost |-> nrb, next |-> next, stop |-> "delim"]
            ELSE ReadLoop(nbuf, nrb, segs, next, end, delim)
    ELSE IF next <= Len(segs) THEN
        \* bufio fills its buffer with one more conn.Read
        ReadLoop(buf, rb \o segs[next], segs, next + 1, end, delim)
    ELSE IF end = "timeout" THEN
        \* err is neither nil nor io.EOF: break before the chunk is written
        [buf |-> buf, lost |-> rb, next |-> next, stop |-> "timeout"]
    ELSE
        \* io.EOF: the chunk is written, then the loop ends
        [buf |-> buf \o rb, lost |-> <<>>, next |-> next,
         stop |-> IF Contains(buf \o rb, delim) THEN "delim" ELSE "eof"]

\* A readMsg that removes the delimiter and leaves the whitespace around the rest.
ReadMsgUntrimmed(segs, end, delim) ==
    LET r == ReadLoop(<<>>, <<>>, segs, 1, end, delim) IN
    [msg  |-> ReplaceAll(r.buf, delim),
     buf  |-> r.buf,
     lost |-> r.lost,
     rest |-> Concat(SubSeq(segs, r.next, Len(segs))),
     stop |-> r.stop]

\* readMsg with a non-empty delimiter: the loop, then the returned string.
ReadMsg(segs, end, delim) ==
    LET r == ReadLoop(<<>>, <<>>, segs, 1, end, delim) IN
    [msg  |-> TrimSpace(ReplaceAll(r.buf, delim)),
     buf  |-> r.buf,
     lost |-> r.lost,
     rest |-> Concat(SubSeq(segs, r.next, Len(segs))),
     stop |-> r.stop]

-----------------------------------------------------------------------------
(* encoding/json, as far as ScanPod uses it.  A JSON value is a record      *)
(* with every field present: k its kind, s a string's text, n a number,     *)
(* a an array's elements, m an object's members in textual order.           *)

StrToks == {"'cubes'", "'a'", "'b'", "'c'", "'Name'", "'name'", "'Position'",
            "'x'", "'y'", "'z'", "'P1'", "'P2'", "'g1'", "'g2'", "'Host'",
            "'Seed'", "'evil'"}

Digits == {"0", "1", "2", "3"}

DigitVal(t) == CASE t = "0" -> 0 [] t = "1" -> 1 [] t = "2" -> 2 [] OTHER -> 3

JNull == [k |-> "null", s |-> "", n |-> 0, a |-> <<>>, m |-> <<>>]
JStr(t) == [k |-> "str", s |-> t, n |-> 0, a |-> <<>>, m |-> <<>>]
JNum(i) == [k |-> "num", s |-> "", n |-> i, a |-> <<>>, m |-> <<>>]
JArr(els) == [k |-> "arr", s |-> "", n |-> 0, a |-> els, m |-> <<>>]
JObj(mem) == [k |-> "obj", s |-> "", n |-> 0, a |-> <<>>, m |-> mem]

ParseFail == [ok |-> FALSE, v |-> JNull, rest |-> <<>>]
ParseOk(val, r) == [ok |-> TRUE, v |-> val, rest |-> r]

\* The longest run of digits s starts with.
RECURSIVE DigitRun(_)
DigitRun(s) ==
    IF s # <<>> /\ Head(s) \in Digits THEN <<Head(s)>> \o DigitRun(Tail(s)) ELSE <<>>

RECURSIVE NumVal(_)
NumVal(run) ==
    IF run = <<>> THEN 0
    ELSE NumVal(SubSeq(run, 1, Len(run) - 1)) * 10 + DigitVal(run[Len(run)])

RECURSIVE ParseValue(_)
RECURSIVE ParseElements(_, _)
RECURSIVE ParseMembers(_, _)

ParseValue(s0) ==
    LET s == TrimLeft(s0) IN
    IF s = <<>> THEN ParseFail
    ELSE LET t == Head(s) IN
         IF t = "null" THEN ParseOk(JNull, Tail(s))
         ELSE IF t \in StrToks THEN ParseOk(JStr(t), Tail(s))
         ELSE IF t \in Digits THEN
             LET run == DigitRun(s) IN
             IF Len(run) > 1 /\ run[1] = "0" THEN ParseFail
             ELSE ParseOk(JNum(NumVal(run)), SubSeq(s, Len(run) + 1, Len(s)))
         ELSE IF t = "[" THEN
             LET r == TrimLeft(Tail(s)) IN
             IF r # <<>> /\ Head(r) = "]" THEN ParseOk(JArr(<<>>), Tail(r))
             ELSE ParseElements(r, <<>>)
         ELSE IF t = "{" THEN
             LET r == TrimLeft(Tail(s)) IN
             IF r # <<>> /\ Head(r) = "}" THEN ParseOk(JObj(<<>>), Tail(r))
             ELSE ParseMembers(r, <<>>)
         ELSE ParseFail

ParseElements(s, acc) ==
    LET e == ParseValue(s) IN
    IF ~e.ok THEN ParseFail
    ELSE LET r == TrimLeft(e.rest) IN
         IF r = <<>> THEN ParseFail
         ELSE IF Head(r) = "," THEN ParseElements(Tail(r), Append(acc, e.v))
         ELSE IF Head(r) = "]" THEN ParseOk(JArr(Append(acc, e.v)), Tail(r))
         ELSE ParseFail

ParseMembers(s0, acc) ==
    LET s == TrimLeft(s0) IN
    IF s = <<>> \/ Head(s) \notin StrToks THEN ParseFail
    ELSE LET c == TrimLeft(Tail(s)) IN
         IF c = <<>> \/ Head(c) # ":" THEN ParseFail
         ELSE LET e == ParseValue(Tail(c)) IN
              IF ~e.ok THEN ParseFail
              ELSE LET r == TrimLeft(e.rest)
                       mem == Append(acc, [key |-> Head(s), val |-> e.v])
                   IN  IF r = <<>> THEN ParseFail
                       ELSE IF Head(r) = "," THEN ParseMembers(Tail(r), mem)
                       ELSE IF Head(r) = "}" THEN ParseOk(JObj(mem), Tail(r))
                       ELSE ParseFail

\* The whole text is one JSON value (json's checkValid), and that value.
ParseDoc(text) ==
    LET r == ParseValue(text) IN
    IF r.ok /\ TrimLeft(r.rest) = <<>> THEN r ELSE ParseFail

\* The keys of an object's members, and the value the last member of a key holds
\* (a later member of a Go map's key replaces an earlier one).
MemberKeys(mem) == {mem[i].key : i \in 1..Len(mem)}

LastIndex(mem, key) ==
    LET is == {i \in 1..Len(mem) : mem[i].key = key} IN
    IF is = {} THEN 0 ELSE CHOOSE i \in is : \A j \in is : j <= i

MemberGet(mem, key) ==
    IF LastIndex(mem, key) = 0 THEN JNull ELSE mem[LastIndex(mem, key)].val

\* A decoding of the cube reply that takes any JSON value.
UnmarshalCubesAnyValue(text) ==
    LET r == ParseDoc(text) IN
    IF ~r.ok THEN [err |-> TRUE, data |-> <<>>]
    ELSE [err |-> FALSE, data |-> IF r.v.k = "obj" THEN r.v.m ELSE <<>>]

\* json.Unmarshal into a map[string]interface{}: an object fills the map, null
\* leaves it nil, anything else is an error.
UnmarshalCubes(text) ==
    LET r == ParseDoc(text) IN
    IF ~r.ok \/ r.v.k \notin {"obj", "null"} THEN [err |-> TRUE, data |-> <<>>]
    ELSE [err |-> FALSE, data |-> r.v.m]

\* toStringSlice(cubesData["cubes"])
RECURSIVE StringElements(_)
StringElements(els) ==
    IF els = <<>> THEN <<>>
    ELSE (IF Head(els).k = "str" THEN <<Head(els).s>> ELSE <<>>)
         \o StringElements(Tail(els))

\* A toStringSlice that gives up on a list holding anything but strings.
toStringSliceAllOrNothing(v) ==
    IF v.k = "arr" /\ \A i \in 1..Len(v.a) : v.a[i].k = "str"
    THEN StringElements(v.a)
    ELSE <<>>

toStringSlice(v) == IF v.k = "arr" THEN StringElements(v.a) ELSE <<>>

-----------------------------------------------------------------------------
(* json.Unmarshal into a map[string][]Planet.  A type mismatch is recorded  *)
(* and makes Unmarshal return an error after the whole text is decoded.     *)

NameKeys == {"'Name'", "'name'"}       \* field names match without regard to case
PositionKeys == {"'Position'"}
SeedKeys == {"'Seed'"}

NilPosition == [isNil |-> TRUE, kv |-> <<>>]
ZeroPlanet == [err |-> FALSE, Name |-> "", Position |-> NilPosition]

\* The members of a Position object as map[string]float64 entries.
RECURSIVE DecodeAxes(_)
DecodeAxes(mem) ==
    IF mem = <<>> THEN [err |-> FALSE, kv |-> <<>>]
    ELSE LET h == Head(mem)
             r == DecodeAxes(Tail(mem))
         IN  [err |-> r.err \/ h.val.k \notin {"num", "null"},
              kv  |-> <<[key |-> h.key, val |-> IF h.val.k = "num" THEN h.val.n ELSE 0]>>
                      \o r.kv]

\* The members of a planet object, decoded into the Planet struct p in order.
RECURSIVE DecodeFields(_, _)
DecodeFields(mem, p) ==
    IF mem = <<>> THEN p
    ELSE LET h == Head(mem)
             q == IF h.key \in NameKeys THEN
                      IF h.val.k = "str" THEN [p EXCEPT !.Name = h.val.s]
                      ELSE IF h.val.k = "null" THEN p
                      ELSE [p EXCEPT !.err = TRUE]
                  ELSE IF h.key \in PositionKeys THEN
                      IF h.val.k = "obj" THEN
                          LET ax == DecodeAxes(h.val.m) IN
                          [p EXCEPT !.err = @ \/ ax.err,
                                    !.Position = [isNil |-> FALSE,
                                                  kv |-> p.Position.kv \o ax.kv]]
                      ELSE IF h.val.k = "null" THEN p
                      ELSE [p EXCEPT !.err = TRUE]
                  ELSE IF h.key \in SeedKeys THEN
                      IF h.val.k \in {"num", "null"} THEN p ELSE [p EXCEPT !.err = TRUE]
                  ELSE p      \* a key that is no field of Planet is skipped
         IN  DecodeFields(Tail(mem), q)

DecodePlanet(v) ==
    IF v.k = "obj" THEN DecodeFields(v.m, ZeroPlanet)
    ELSE IF v.k = "null" THEN ZeroPlanet
    ELSE [ZeroPlanet EXCEPT !.err = TRUE]

\* One group's value as a []Planet.
DecodeGroup(v) ==
    IF v.k = "arr" THEN
        [err |-> \E i \in 1..Len(v.a) : DecodePlanet(v.a[i]).err,
         planets |-> [i \in 1..Len(v.a) |-> DecodePlanet(v.a[i])]]
    ELSE [err |-> v.k # "null", planets |-> <<>>]

UnmarshalPlanets(text) ==
    LET r == ParseDoc(text) IN
    IF ~r.ok \/ r.v.k \notin {"obj", "null"} THEN [err |-> TRUE, data |-> <<>>]
    ELSE [err  |-> \E i \in 1..Len(r.v.m) : DecodeGroup(r.v.m[i].val).err,
          data |-> [key \in MemberKeys(r.v.m) |->
                        DecodeGroup(MemberGet(r.v.m, key)).planets]]

\* p.Position[axis]: the entry last stored under the axis, 0 when there is none.
AxisOf(pos, axis) ==
    IF LastIndex(pos.kv, axis) = 0 THEN 0 ELSE pos.kv[LastIndex(pos.kv, axis)].val

\* A loop body that stores the y axis third and the z axis second.
PlanetRecordOfSwapped(p, host, port) ==
    [Name |-> p.Name,
     Coordinates |-> IF p.Position.isNil THEN <<0, 0, 0>>
                     ELSE <<AxisOf(p.Position, "'x'"), AxisOf(p.Position, "'z'"),
                            AxisOf(p.Position, "'y'")>>,
     Host |-> host,
     Port |-> port]

\* The body of the inner loop of ScanPod: one PlanetRecord from one Planet.
PlanetRecordOf(p, host, port) ==
    [Name |-> p.Name,
     Coordinates |-> IF p.Position.isNil THEN <<0, 0, 0>>
                     ELSE <<AxisOf(p.Position, "'x'"), AxisOf(p.Position, "'y'"),
                            AxisOf(p.Position, "'z'")>>,
     Host |-> host,
     Port |-> port]

\* The two loops of ScanPod over planetsData, the map ranged over in the order ord.
RECURSIVE PlanetRecords(_, _, _, _)
PlanetRecords(data, ord, host, port) ==
    IF ord = <<>> THEN <<>>
    ELSE [i \in 1..Len(data[Head(ord)]) |-> PlanetRecordOf(data[Head(ord)][i], host, port)]
         \o PlanetRecords(data, Tail(ord), host, port)

\* The orders in which a range over a map with these keys may visit them.
Perms(S) ==
    {f \in [1..Cardinality(S) -> S] : \A i, j \in 1..Cardinality(S) : f[i] = f[j] => i = j}

-----------------------------------------------------------------------------
(* ScanPod.  An invocation is a record: pc its position, conn the state of  *)
(* its connection, sock the bytes that have arrived on the connection and   *)
(* that no Read has taken, peerClosed whether the pod has closed its side.  *)
(* sent, reads, authMsg, cubeMsg and planetMsg record what was written and  *)
(* what each readMsg returned.  The pod and the network are the event ev    *)
(* each step is given: whether the dial or the write succeeds (kind, text), *)
(* the byte runs that arrive during a read and how the read ends (segs,     *)
(* end), and the order in which the range over planetsData runs (ord).      *)

AuthSuccess == <<"auth_", "success">>          \* "auth_success"
AuthPass == <<"my_secure_password">>
CubeListRequest == <<"{", "'type'", ":", "'get_cube_list'", "}">>
PlanetsRequest == <<"{", "'type'", ":", "'get_planets'", "}">>

NoResult ==
    [Host |-> "", Port |-> 0, Success |-> FALSE, Error |-> "", Cubes |-> <<>>,
     Planets |-> <<>>]

NewScanPod(host, port, auth, delim) ==
    [pc |-> "dial", host |-> host, port |-> port, auth |-> auth, delim |-> delim,
     conn |-> "none", sock |-> <<>>, peerClosed |-> FALSE,
     sent |-> <<>>, reads |-> <<>>,
     authMsg |-> <<>>, cubeMsg |-> <<>>, planetMsg |-> <<>>,
     cubes |-> <<>>, result |-> NoResult]

\* An authentication step that takes any reply for a success.
AuthAcceptedAlways(msg) == TRUE

\* An authentication step that looks for the first half of the word only.
AuthAcceptedPrefix(msg) == Contains(msg, <<"auth_">>)

\* strings.Contains(readMsg(conn, timeout, delim), "auth_success")
AuthAccepted(msg) == Contains(msg, AuthSuccess)

Event(kind, text, segs, end, ord) ==
    [kind |-> kind, text |-> text, segs |-> segs, end |-> end, ord |-> ord]

\* A failure return that leaves the Error field out of the PodResult.
ReturnFailureNoError(st, e) ==
    [st EXCEPT !.pc = "done",
               !.conn = IF @ = "open" THEN "closed" ELSE @,
               !.result = [Host |-> st.host, Port |-> st.port, Success |-> FALSE,
                           Error |-> "", Cubes |-> <<>>, Planets |-> <<>>]]

\* A failure return without the deferred conn.Close().
ReturnFailureNoClose(st, e) ==
    [st EXCEPT !.pc = "done",
               !.result = [Host |-> st.host, Port |-> st.port, Success |-> FALSE,
                           Error |-> e, Cubes |-> <<>>, Planets |-> <<>>]]

\* A failure return that hands over the cubes parsed before the failure.
ReturnFailureWithCubes(st, e) ==
    [st EXCEPT !.pc = "done",
               !.conn = IF @ = "open" THEN "closed" ELSE @,
               !.result = [Host |-> st.host, Port |-> st.port, Success |-> FALSE,
                           Error |-> e, Cubes |-> st.cubes, Planets |-> <<>>]]

\* return PodResult{Host: host, Port: port, Success: false, Error: e}; the deferred
\* conn.Close() runs when a connection was opened.
ReturnFailure(st, e) ==
    [st EXCEPT !.pc = "done",
               !.conn = IF @ = "open" THEN "closed" ELSE @,
               !.result = [Host |-> st.host, Port |-> st.port, Success |-> FALSE,
                           Error |-> e, Cubes |-> <<>>, Planets |-> <<>>]]

ReturnSuccess(st, cubes, planetRecords) ==
    [st EXCEPT !.pc = "done",
               !.conn = "closed",
               !.result = [Host |-> st.host, Port |-> st.port, Success |-> TRUE,
                           Error |-> "", Cubes |-> cubes, Planets |-> planetRecords]]

\* sendMsg on the invocation's connection: on success the framed bytes are written.
Sent(st, msg, nextPc) ==
    [st EXCEPT !.pc = nextPc, !.sent = Append(@, Framed(msg, st.delim))]

\* What one readMsg of the invocation reads: the bytes already in the socket come
\* with the first Read; a pod that has closed its side sends nothing more.
ReadOf(st, ev) ==
    ReadMsg((IF st.sock = <<>> THEN <<>> ELSE <<st.sock>>)
                \o (IF st.peerClosed THEN <<>> ELSE ev.segs),
            IF st.peerClosed THEN "eof" ELSE ev.end,
            st.delim)

\* A readMsg whose reader hands the bytes it took and did not return back to the
\* connection.
UnreadWithReaderBytes(r) == r.lost \o r.rest

\* What the connection holds when a readMsg returns: the bytes no Read has taken.
\* The bytes its bufio.Reader took and did not return go with the reader.
Unread(r) == r.rest

\* The connection after that readMsg.
AfterRead(st, r) ==
    [st EXCEPT !.sock = Unread(r),
               !.peerClosed = @ \/ r.stop = "eof",
               !.reads = Append(@, r.stop)]

\* conn.Write has no deadline: when the pod does not read and the bytes do not fit
\* the buffers of the connection, the call never returns.
Blocked(st) == [st EXCEPT !.pc = "blocked"]

\* delim[len(delim)-1] with an empty delimiter: the goroutine panics; the deferred
\* Close runs and no PodResult is returned.
Panic(st) == [st EXCEPT !.pc = "panic", !.conn = "closed"]

ScanPodStep(st, ev) ==
    CASE st.pc = "dial" ->
            IF ev.kind = "err" THEN ReturnFailure(st, ev.text)
            ELSE [st EXCEPT !.pc = "sendAuth", !.conn = "open"]
      [] st.pc = "sendAuth" ->
            IF ev.kind = "err" THEN ReturnFailure(st, "Auth failed")
            ELSE IF ev.kind = "block" THEN Blocked(st)
            ELSE Sent(st, st.auth, "readAuth")
      [] st.pc = "readAuth" ->
            IF st.delim = <<>> THEN Panic(st)
            ELSE LET r == ReadOf(st, ev)
                     st1 == [AfterRead(st, r) EXCEPT !.authMsg = r.msg]
                 IN  IF ~AuthAccepted(r.msg)
                     THEN ReturnFailure(st1, "Bad password")
                     ELSE [st1 EXCEPT !.pc = "sendCubes"]
      [] st.pc = "sendCubes" ->
            IF ev.kind = "err" THEN ReturnFailure(st, "Cube req fail")
            ELSE IF ev.kind = "block" THEN Blocked(st)
            ELSE Sent(st, CubeListRequest, "readCubes")
      [] st.pc = "readCubes" ->
            LET r == ReadOf(st, ev)
                st1 == [AfterRead(st, r) EXCEPT !.cubeMsg = r.msg]
                cubesData == UnmarshalCubes(r.msg)
            IN  IF cubesData.err THEN ReturnFailure(st1, "Cube parse fail")
                ELSE [st1 EXCEPT !.pc = "sendPlanets",
                                 !.cubes = toStringSlice(MemberGet(cubesData.data,
                                                                   "'cubes'"))]
      [] st.pc = "sendPlanets" ->
            IF ev.kind = "err" THEN ReturnFailure(st, "Planet req fail")
            ELSE IF ev.kind = "block" THEN Blocked(st)
            ELSE Sent(st, PlanetsRequest, "readPlanets")
      [] st.pc = "readPlanets" ->
            LET r == ReadOf(st, ev)
                st1 == [AfterRead(st, r) EXCEPT !.planetMsg = r.msg]
                planetsData == UnmarshalPlanets(r.msg)
            IN  IF planetsData.err THEN ReturnFailure(st1, "Planet parse fail")
                ELSE ReturnSuccess(st1, st1.cubes,
                                   PlanetRecords(planetsData.data, ev.ord, st.host,
                                                 st.port))
      [] OTHER -> st

\* The keys of planetsData that the planet reply read at this step decodes to.
PlanetKeysAt(st, ev) ==
    LET planetsData == UnmarshalPlanets(ReadOf(st, ev).msg) IN
    IF planetsData.err THEN {} ELSE DOMAIN planetsData.data

\* A whole invocation: script gives the event of each step.
RECURSIVE ScanPodRun(_, _)
ScanPodRun(st, script) ==
    IF st.pc \in {"done", "panic", "blocked"} THEN st
    ELSE ScanPodRun(ScanPodStep(st, script[st.pc]), script)

-----------------------------------------------------------------------------
(* What the pods and the network may do: the inputs of the model.          *)

\* Auth replies.
AuthTexts ==
    { AuthSuccess,
      <<"ok", " ", "auth_", "success", "!">>,
      <<"auth_">> }

\* Cube-list replies.
CubesAB == <<"{", "'cubes'", ":", "[", "'a'", ",", "'b'", "]", "}">>
CubesA == <<"{", "'cubes'", ":", "[", "'a'", "]", "}">>
CubesMixed ==
    <<"{", "'cubes'", ":", "[", "'b'", ",", "1", ",", "null", ",", "'a'", ",",
      "[", "'c'", "]", "]", "}">>
CubesNotList == <<"{", "'cubes'", ":", "'a'", "}">>
CubesOtherKey == <<"{", "'a'", ":", "[", "'b'", "]", "}">>
CubesSpaced == <<"{", " ", "'cubes'", " ", ":", "[", " ", "'c'", "]", "\n", "}">>
CubesTwice ==
    <<"{", "'cubes'", ":", "[", "'a'", "]", ",", "'cubes'", ":", "[", "'b'", "]", "}">>
CubesTruncated == <<"{", "'cubes'", ":", "[", "'a'", "]">>
CubesArray == <<"[", "'a'", "]">>

CubeTexts ==
    { CubesAB, CubesMixed, CubesNotList, CubesOtherKey, CubesSpaced, CubesTwice,
      CubesTruncated, CubesArray, <<"null">> }

\* Planet replies.
PlanetP1 ==
    <<"{", "'g1'", ":", "[", "{", "'Name'", ":", "'P1'", ",", "'Position'", ":",
      "{", "'x'", ":", "1", ",", "'y'", ":", "2", ",", "'z'", ":", "3", "}", "}",
      "]", "}">>
PlanetTwoGroups ==
    <<"{", "'g1'", ":", "[", "{", "'Name'", ":", "'P1'", ",", "'Position'", ":",
      "{", "'x'", ":", "3", "}", "}", "]", ",",
      "'g2'", ":", "[", "{", "'Name'", ":", "'P2'", "}", ",",
      "{", "'Host'", ":", "'evil'", ",", "'name'", ":", "'P1'", ",", "'Position'",
      ":", "{", "'y'", ":", "2", ",", "'z'", ":", "null", "}", "}", "]", "}">>
PlanetNilPosition ==
    <<"{", "'g2'", ":", "[", "{", "'Name'", ":", "'P2'", ",", "'Position'", ":",
      "null", ",", "'Seed'", ":", "2", "}", ",", "null", "]", ",", "'g1'", ":",
      "null", "}">>
PlanetGroupNotList == <<"{", "'g1'", ":", "{", "'Name'", ":", "'P1'", "}", "}">>
PlanetNameNotString == <<"{", "'g1'", ":", "[", "{", "'Name'", ":", "1", "}", "]", "}">>
PlanetSeedNotNumber ==
    <<"{", "'g1'", ":", "[", "{", "'Name'", ":", "'P1'", ",", "'Seed'", ":", "'a'",
      "}", "]", "}">>
PlanetAxisNotNumber ==
    <<"{", "'g1'", ":", "[", "{", "'Name'", ":", "'P1'", ",", "'Position'", ":",
      "{", "'x'", ":", "'a'", "}", "}", "]", "}">>

PlanetTexts ==
    { PlanetP1, PlanetTwoGroups, PlanetNilPosition, PlanetGroupNotList,
      PlanetNameNotString, PlanetSeedNotNumber, PlanetAxisNotNumber,
      <<"{", "}">>, <<"null">>, <<"[", "]">> }

OkEvent == Event("ok", "", <<>>, "timeout", <<>>)
ErrEvent(text) == Event("err", text, <<>>, "timeout", <<>>)

DialErrors == {"dial tcp: connection refused", "dial tcp: i/o timeout"}
DialEvents == {OkEvent} \cup {ErrEvent(e) : e \in DialErrors}
BlockEvent == Event("block", "", <<>>, "timeout", <<>>)
SendEvents == {OkEvent, ErrEvent("write: broken pipe"), BlockEvent}

NonEmpty(segs) == SelectSeq(segs, LAMBDA s : s # <<>>)

(* The ways the reply text arrives during one read, for a pod that frames   *)
(* with delim: whole, in two runs, without its delimiter or with only the   *)
(* delimiter's last byte, or together with the pod's next message (next).   *)
Arrivals(text, next, delim) ==
    LET last == <<delim[Len(delim)]>>
        front == SubSeq(delim, 1, Len(delim) - 1)
    IN  { Event("ok", "", NonEmpty(segs), "timeout", <<>>) :
            segs \in { <<text \o delim>>,
                       <<text \o front, last>>,
                       <<text \o delim \o next \o delim>>,
                       <<text \o delim, next \o delim>> } }
        \cup
        { Event("ok", "", NonEmpty(segs), end, <<>>) :
            segs \in { <<text>>, <<text \o last>>, <<>> },
            end \in {"timeout", "eof"} }

ReadEvents(texts, next, delim) ==
    IF delim = <<>> THEN {OkEvent}
    ELSE UNION {Arrivals(t, next, delim) : t \in texts}

\* The pods of a scan: each answers a whole invocation in one of these ways.
Whole(text, delim) == Event("ok", "", <<text \o delim>>, "timeout", <<>>)

PlanetMoved ==
    <<"{", "'g1'", ":", "[", "{", "'Name'", ":", "'P1'", ",", "'Position'", ":",
      "{", "'x'", ":", "3", "}", "}", ",", "{", "'Name'", ":", "'P2'", "}", "]", "}">>

PodScript(dial, authReply, cubeReply, planetReply) ==
    [dial |-> dial, sendAuth |-> OkEvent, readAuth |-> authReply,
     sendCubes |-> OkEvent, readCubes |-> cubeReply,
     sendPlanets |-> OkEvent, readPlanets |-> planetReply]

ScanScripts(delim) ==
    LET silent == Event("ok", "", <<>>, "timeout", <<>>)
        planets(text) == Event("ok", "", <<text \o delim>>, "timeout", <<"'g1'">>)
    IN  { PodScript(ErrEvent("dial tcp: connection refused"), silent, silent, silent),
          PodScript(OkEvent, Whole(<<"nope">>, delim), silent, silent),
          [PodScript(OkEvent, silent, silent, silent) EXCEPT !.sendAuth = BlockEvent],
          PodScript(OkEvent, Whole(AuthSuccess, delim), Whole(CubesA, delim),
                    Whole(<<"nope">>, delim)),
          PodScript(OkEvent, Whole(AuthSuccess, delim), Whole(CubesA, delim),
                    planets(PlanetP1)),
          PodScript(OkEvent, Whole(AuthSuccess, delim), Whole(CubesAB, delim),
                    planets(PlanetMoved)) }

-----------------------------------------------------------------------------
(* Discover: NewDiscover and ScanAll.                                      *)

StartPort == 14000
TimeoutSec == 10
PortSteps == {0, 3}
HostLists == {<<>>, <<"h1">>, <<"h1", "h2">>, <<"h1", "h1">>}
ScanDelims == {<<>>, <<"<", "-">>}

\* The configs of the model: at most MaxTasks pod tasks over all the calls made; a
\* PortStep of 0 goes with a single host.
Configs ==
    { c \in { [Hosts |-> hs, StartPort |-> StartPort, PortStep |-> ps, NumPods |-> k,
               AuthPass |-> AuthPass, Delimiter |-> d, TimeoutSec |-> TimeoutSec] :
                hs \in HostLists, ps \in PortSteps, k \in 0..MaxTasks,
                d \in ScanDelims } :
        c.PortStep # 0 \/ Len(c.Hosts) <= 1 }

\* What ScanPod may return (or how it ends) for each pod address of the model.
ScanOutcomeTable ==
    [h \in {"h1", "h2"}, p \in {StartPort + i * s : i \in 0..MaxTasks, s \in PortSteps},
     d \in ScanDelims |->
        {ScanPodRun(NewScanPod(h, p, AuthPass, d), s) : s \in ScanScripts(d)}]

ScanPod(host, port, auth, delim, timeout) == ScanOutcomeTable[host, port, delim]

\* m[k] = v on a Go map.
MapPut(m, k, v) == [x \in DOMAIN m \cup {k} |-> IF x = k THEN v ELSE m[x]]

\* A merge of planets that, for a name already there, overwrites the coordinates
\* and keeps the rest of the record.
RECURSIVE MergePlanetsByField(_, _)
MergePlanetsByField(m, planets) ==
    IF planets = <<>> THEN m
    ELSE LET p == Head(planets)
             q == IF p.Name \in DOMAIN m
                  THEN [m[p.Name] EXCEPT !.Coordinates = p.Coordinates]
                  ELSE p
         IN  MergePlanetsByField(MapPut(m, p.Name, q), Tail(planets))

\* for _, planet := range result.Planets { d.Planets[planet.Name] = planet }
RECURSIVE MergePlanets(_, _)
MergePlanets(m, planets) ==
    IF planets = <<>> THEN m
    ELSE MergePlanets(MapPut(m, Head(planets).Name, Head(planets)), Tail(planets))

\* for _, cube := range result.Cubes { d.Cubes[cube] = result.Host }
RECURSIVE MergeCubes(_, _, _)
MergeCubes(m, cubes, host) ==
    IF cubes = <<>> THEN m
    ELSE MergeCubes(MapPut(m, Head(cubes), host), Tail(cubes), host)

\* The range loop's variable before anything is received (tasks count from 1).
NoReceived == [tid |-> 0, res |-> NoResult]
NoHistory == [calls |-> 0, pre |-> <<>>, merged |-> {}]

\* A channel sized for the pods of one host.
ChanCapPerHost == cfg.NumPods

\* make(chan PodResult, d.Config.NumPods*len(d.Config.Hosts))
ChanCap == cfg.NumPods * Len(cfg.Hosts)

\* NewDiscover(cfg), before any call.
NewDiscover(c) ==
    /\ cfg = c
    /\ Results = <<>>
    /\ Planets = <<>>
    /\ Cubes = <<>>
    /\ mu = "free"
    /\ mpc = "idle"
    /\ hi = 1
    /\ pi = 0
    /\ tasks = <<>>
    /\ wg = 0
    /\ resultsChan = <<>>
    /\ chanClosed = FALSE
    /\ cur = NoReceived
    /\ hist = NoHistory

\* A ScanAll that starts from an empty registry at every call.
CallScanAllFresh ==
    /\ mpc = "idle"
    /\ scansLeft > 0
    /\ scansLeft' = scansLeft - 1
    /\ mpc' = "launch"
    /\ hi' = 1
    /\ pi' = 0
    /\ tasks' = <<>>
    /\ wg' = 0
    /\ resultsChan' = <<>>
    /\ chanClosed' = FALSE
    /\ Results' = <<>>
    /\ Planets' = <<>>
    /\ Cubes' = <<>>
    /\ hist' = [calls |-> hist.calls + 1, pre |-> <<>>, merged |-> {}]
    /\ UNCHANGED <<cfg, mu, cur, pod, codec>>

\* ScanAll is called: the WaitGroup and the channel are made.
CallScanAll ==
    /\ mpc = "idle"
    /\ scansLeft > 0
    /\ scansLeft' = scansLeft - 1
    /\ mpc' = "launch"
    /\ hi' = 1
    /\ pi' = 0
    /\ tasks' = <<>>
    /\ wg' = 0
    /\ resultsChan' = <<>>
    /\ chanClosed' = FALSE
    /\ hist' = [calls |-> hist.calls + 1, pre |-> Results, merged |-> {}]
    /\ UNCHANGED <<cfg, Results, Planets, Cubes, mu, cur, pod, codec>>

\* A launch that counts the pods of a host from one: port StartPort + (i+1)*PortStep.
LaunchFromOne ==
    /\ mpc = "launch"
    /\ hi <= Len(cfg.Hosts)
    /\ pi < cfg.NumPods
    /\ wg' = wg + 1
    /\ tasks' = Append(tasks, [pc |-> "scan", host |-> cfg.Hosts[hi],
                               port |-> cfg.StartPort + (pi + 1) * cfg.PortStep,
                               st |-> NewScanPod(cfg.Hosts[hi],
                                                 cfg.StartPort + (pi + 1) * cfg.PortStep,
                                                 cfg.AuthPass, cfg.Delimiter)])
    /\ pi' = pi + 1
    /\ UNCHANGED <<cfg, Results, Planets, Cubes, mu, mpc, hi, resultsChan, chanClosed,
                   cur, scansLeft, hist, pod, codec>>

\* One iteration of the inner loop: wg.Add(1) and the go statement.
Launch ==
    /\ mpc = "launch"
    /\ hi <= Len(cfg.Hosts)
    /\ pi < cfg.NumPods
    /\ wg' = wg + 1
    /\ tasks' = Append(tasks, [pc |-> "scan", host |-> cfg.Hosts[hi],
                               port |-> cfg.StartPort + pi * cfg.PortStep,
                               st |-> NewScanPod(cfg.Hosts[hi],
                                                 cfg.StartPort + pi * cfg.PortStep,
                                                 cfg.AuthPass, cfg.Delimiter)])
    /\ pi' = pi + 1
    /\ UNCHANGED <<cfg, Results, Planets, Cubes, mu, mpc, hi, resultsChan, chanClosed,
                   cur, scansLeft, hist, pod, codec>>

\* The inner loop ends: the outer loop takes the next host.
NextHost ==
    /\ mpc = "launch"
    /\ hi <= Len(cfg.Hosts)
    /\ pi >= cfg.NumPods
    /\ hi' = hi + 1
    /\ pi' = 0
    /\ UNCHANGED <<cfg, Results, Planets, Cubes, mu, mpc, tasks, wg, resultsChan,
                   chanClosed, cur, scansLeft, hist, pod, codec>>

\* A goroutine that sends its result only when the scan succeeded.
PodTaskSuccessOnly(t) ==
    /\ mpc # "crashed"
    /\ tasks[t].pc = "scan"
    /\ Len(resultsChan) < ChanCap
    /\ \E st \in ScanPod(tasks[t].host, tasks[t].port, cfg.AuthPass, cfg.Delimiter,
                         cfg.TimeoutSec) :
          IF st.pc = "panic"
          THEN /\ tasks' = [tasks EXCEPT ![t].st = st, ![t].pc = "panic"]
               /\ mpc' = "crashed"
               /\ UNCHANGED <<resultsChan, wg>>
          ELSE IF st.pc = "blocked"
          THEN /\ tasks' = [tasks EXCEPT ![t].st = st, ![t].pc = "blocked"]
               /\ UNCHANGED <<resultsChan, wg, mpc>>
          ELSE /\ tasks' = [tasks EXCEPT ![t].st = st, ![t].pc = "done"]
               /\ resultsChan' = IF st.result.Success
                                 THEN Append(resultsChan, [tid |-> t, res |-> st.result])
                                 ELSE resultsChan
               /\ wg' = wg - 1
               /\ UNCHANGED mpc
    /\ UNCHANGED <<cfg, Results, Planets, Cubes, mu, hi, pi, chanClosed, cur, scansLeft,
                   hist, pod, codec>>

\* The goroutine of one pair: defer wg.Done(); result := ScanPod(...), which touches
\* nothing but its own connection; resultsChan <- result, which has room in the
\* channel whenever it runs.  A panic in ScanPod ends the program.
PodTask(t) ==
    /\ mpc # "crashed"
    /\ tasks[t].pc = "scan"
    /\ Len(resultsChan) < ChanCap
    /\ \E st \in ScanPod(tasks[t].host, tasks[t].port, cfg.AuthPass, cfg.Delimiter,
                         cfg.TimeoutSec) :
          IF st.pc = "panic"
          THEN /\ tasks' = [tasks EXCEPT ![t].st = st, ![t].pc = "panic"]
               /\ mpc' = "crashed"
               /\ UNCHANGED <<resultsChan, wg>>
          ELSE IF st.pc = "blocked"
          THEN /\ tasks' = [tasks EXCEPT ![t].st = st, ![t].pc = "blocked"]
               /\ UNCHANGED <<resultsChan, wg, mpc>>
          ELSE /\ tasks' = [tasks EXCEPT ![t].st = st, ![t].pc = "done"]
               /\ resultsChan' = Append(resultsChan, [tid |-> t, res |-> st.result])
               /\ wg' = wg - 1
               /\ UNCHANGED mpc
    /\ UNCHANGED <<cfg, Results, Planets, Cubes, mu, hi, pi, chanClosed, cur, scansLeft,
                   hist, pod, codec>>

\* A ScanAll that goes on to close the channel without waiting for the tasks.
WgWaitNoWait ==
    /\ mpc = "launch"
    /\ hi > Len(cfg.Hosts)
    /\ mpc' = "close"
    /\ UNCHANGED <<cfg, Results, Planets, Cubes, mu, hi, pi, tasks, wg, resultsChan,
                   chanClosed, cur, scansLeft, hist, pod, codec>>

\* The outer loop has ended and wg.Wait() returns: the counter is zero.
WgWait ==
    /\ mpc = "launch"
    /\ hi > Len(cfg.Hosts)
    /\ wg = 0
    /\ mpc' = "close"
    /\ UNCHANGED <<cfg, Results, Planets, Cubes, mu, hi, pi, tasks, wg, resultsChan,
                   chanClosed, cur, scansLeft, hist, pod, codec>>

\* close(resultsChan)
CloseChan ==
    /\ mpc = "close"
    /\ chanClosed' = TRUE
    /\ mpc' = "range"
    /\ UNCHANGED <<cfg, Results, Planets, Cubes, mu, hi, pi, tasks, wg, resultsChan,
                   cur, scansLeft, hist, pod, codec>>

\* for result := range resultsChan: the next result is received.
Receive ==
    /\ mpc = "range"
    /\ resultsChan # <<>>
    /\ cur' = Head(resultsChan)
    /\ resultsChan' = Tail(resultsChan)
    /\ mpc' = "lock"
    /\ UNCHANGED <<cfg, Results, Planets, Cubes, mu, hi, pi, tasks, wg, chanClosed,
                   scansLeft, hist, pod, codec>>

\* d.mu.Lock()
Lock ==
    /\ mpc = "lock"
    /\ mu = "free"
    /\ mu' = "ScanAll"
    /\ mpc' = "merge"
    /\ UNCHANGED <<cfg, Results, Planets, Cubes, hi, pi, tasks, wg, resultsChan,
                   chanClosed, cur, scansLeft, hist, pod, codec>>

\* A merge that leaves the cubes of a successful result out.
MergeWithoutCubes ==
    /\ mpc = "merge"
    /\ Results' = Append(Results, cur.res)
    /\ IF cur.res.Success
       THEN /\ Planets' = MergePlanets(Planets, cur.res.Planets)
            /\ hist' = [hist EXCEPT !.merged = @ \cup {cur.tid}]
            /\ UNCHANGED Cubes
       ELSE UNCHANGED <<Planets, Cubes, hist>>
    /\ mpc' = "unlock"
    /\ UNCHANGED <<cfg, mu, hi, pi, tasks, wg, resultsChan, chanClosed, cur,
                   scansLeft, pod, codec>>

\* The body of the range loop between Lock and Unlock.
Merge ==
    /\ mpc = "merge"
    /\ Results' = Append(Results, cur.res)
    /\ IF cur.res.Success
       THEN /\ Planets' = MergePlanets(Planets, cur.res.Planets)
            /\ Cubes' = MergeCubes(Cubes, cur.res.Cubes, cur.res.Host)
            /\ hist' = [hist EXCEPT !.merged = @ \cup {cur.tid}]
       ELSE UNCHANGED <<Planets, Cubes, hist>>
    /\ mpc' = "unlock"
    /\ UNCHANGED <<cfg, mu, hi, pi, tasks, wg, resultsChan, chanClosed, cur,
                   scansLeft, pod, codec>>

\* d.mu.Unlock()
Unlock ==
    /\ mpc = "unlock"
    /\ mu' = "free"
    /\ mpc' = "range"
    /\ UNCHANGED <<cfg, Results, Planets, Cubes, hi, pi, tasks, wg, resultsChan,
                   chanClosed, cur, scansLeft, hist, pod, codec>>

\* The channel is closed and empty: the range loop ends and ScanAll returns.
Return ==
    /\ mpc = "range"
    /\ resultsChan = <<>>
    /\ chanClosed
    /\ mpc' = "idle"
    /\ UNCHANGED <<cfg, Results, Planets, Cubes, mu, hi, pi, tasks, wg, resultsChan,
                   chanClosed, cur, scansLeft, hist, pod, codec>>

-----------------------------------------------------------------------------
(* One ScanPod invocation, step by step, against every pod of the inputs.   *)

PodDelims == {<<>>, <<"<", "-">>, <<"-", "\n">>}

IdlePod == NewScanPod("", 0, <<>>, <<>>)
IdleCodec == [pc |-> "idle", delim |-> <<>>, payload |-> <<>>, stream |-> <<>>,
              out |-> ReadMsg(<<>>, "eof", <<"-">>)]

\* net.DialTimeout
Dial ==
    /\ pod.pc = "dial"
    /\ \E ev \in DialEvents : pod' = ScanPodStep(pod, ev)
    /\ UNCHANGED <<scanVars, codec>>

\* sendMsg(conn, auth, delim)
SendAuth ==
    /\ pod.pc = "sendAuth"
    /\ \E ev \in SendEvents : pod' = ScanPodStep(pod, ev)
    /\ UNCHANGED <<scanVars, codec>>

\* readMsg and the test for "auth_success"
ReadAuth ==
    /\ pod.pc = "readAuth"
    /\ \E ev \in ReadEvents(AuthTexts, CubesA, pod.delim) : pod' = ScanPodStep(pod, ev)
    /\ UNCHANGED <<scanVars, codec>>

\* sendMsg(conn, `{"type":"get_cube_list"}`, delim)
SendCubes ==
    /\ pod.pc = "sendCubes"
    /\ \E ev \in SendEvents : pod' = ScanPodStep(pod, ev)
    /\ UNCHANGED <<scanVars, codec>>

\* readMsg, json.Unmarshal and toStringSlice
ReadCubes ==
    /\ pod.pc = "readCubes"
    /\ \E ev \in ReadEvents(CubeTexts, PlanetP1, pod.delim) : pod' = ScanPodStep(pod, ev)
    /\ UNCHANGED <<scanVars, codec>>

\* sendMsg(conn, `{"type":"get_planets"}`, delim)
SendPlanets ==
    /\ pod.pc = "sendPlanets"
    /\ \E ev \in SendEvents : pod' = ScanPodStep(pod, ev)
    /\ UNCHANGED <<scanVars, codec>>

\* readMsg, json.Unmarshal and the loops over planetsData, in any order of its keys
ReadPlanets ==
    /\ pod.pc = "readPlanets"
    /\ \E ev \in ReadEvents(PlanetTexts, <<"nope">>, pod.delim) :
         \E ord \in Perms(PlanetKeysAt(pod, ev)) :
            pod' = ScanPodStep(pod, [ev EXCEPT !.ord = ord])
    /\ UNCHANGED <<scanVars, codec>>

-----------------------------------------------------------------------------
(* One message framed by sendMsg and read back by readMsg.                  *)

CodecBytes == {"a", "b", " "}

SeqsUpTo(S, n) == UNION {[1..k -> S] : k \in 0..n}

\* The ways a stream may be cut into the runs that successive Reads return.
Cuts(stream) ==
    {NonEmpty(<<stream>>)}
        \cup {<<SubSeq(stream, 1, k), SubSeq(stream, k + 1, Len(stream))>> :
                k \in 1..(Len(stream) - 1)}

\* sendMsg(conn, payload, delim)
CodecSend ==
    /\ codec.pc = "send"
    /\ codec' = [codec EXCEPT !.pc = "receive",
                              !.stream = Framed(codec.payload, codec.delim)]
    /\ UNCHANGED <<scanVars, pod>>

\* readMsg(conn, timeout, delim) on the other end of that connection
CodecReceive ==
    /\ codec.pc = "receive"
    /\ \E segs \in Cuts(codec.stream), end \in {"timeout", "eof"} :
          codec' = [codec EXCEPT !.pc = "done",
                                 !.out = ReadMsg(segs, end, codec.delim)]
    /\ UNCHANGED <<scanVars, pod>>

-----------------------------------------------------------------------------
(* Two consecutive readMsg calls on one connection, as ScanPod makes them,  *)
(* against a pod that writes two framed replies.                            *)

NextReplies == {<<"b">>, <<"a", " ", "b">>}

\* The connection before the first readMsg: nothing read yet.
NewReads(delim, payload, next) ==
    [pc |-> "first", delim |-> delim, payload |-> payload, next |-> next,
     stream |-> Framed(payload, delim) \o Framed(next, delim), runs |-> <<>>,
     sock |-> <<>>, peerClosed |-> FALSE, reads |-> <<>>,
     out |-> IdleCodec.out, out2 |-> IdleCodec.out]

\* The first readMsg: the pod's bytes arrive in one run or in two, and the Reads
\* after them meet the deadline or the end of the stream.
ReadFirst ==
    /\ codec.pc = "first"
    /\ \E segs \in Cuts(codec.stream), end \in {"timeout", "eof"} :
          LET r == ReadOf(codec, Event("ok", "", segs, end, <<>>)) IN
          codec' = [AfterRead(codec, r) EXCEPT !.pc = "second", !.runs = segs,
                                               !.out = r]
    /\ UNCHANGED <<scanVars, pod>>

\* The next readMsg on the same connection, with a bufio.Reader of its own; the
\* pod sends nothing more.
ReadSecond ==
    /\ codec.pc = "second"
    /\ \E end \in {"timeout", "eof"} :
          LET r == ReadOf(codec, Event("ok", "", <<>>, end, <<>>)) IN
          codec' = [AfterRead(codec, r) EXCEPT !.pc = "done", !.out2 = r]
    /\ UNCHANGED <<scanVars, pod>>

-----------------------------------------------------------------------------
(* The specifications.                                                      *)

\* A caller that makes a registry and calls ScanAll on it, up to MaxScans times.
Init ==
    /\ \E c \in Configs : NewDiscover(c)
    /\ scansLeft \in 1..MaxScans
    /\ Len(cfg.Hosts) * cfg.NumPods * scansLeft <= MaxTasks
    /\ pod = IdlePod
    /\ codec = IdleCodec

Next ==
    \/ CallScanAll
    \/ Launch
    \/ NextHost
    \/ \E t \in 1..Len(tasks) : PodTask(t)
    \/ WgWait
    \/ CloseChan
    \/ Receive
    \/ Lock
    \/ Merge
    \/ Unlock
    \/ Return

Spec == Init /\ [][Next]_vars

\* The same caller under the Go scheduler: a goroutine that can run is run, so as
\* long as ScanAll or one of its pod tasks can take a step, a step is taken.
SpecFair == Init /\ [][Next]_vars /\ WF_vars(Next)

\* One call of ScanPod.
InitPod ==
    /\ NewDiscover([Hosts |-> <<>>, StartPort |-> StartPort, PortStep |-> 0,
                    NumPods |-> 0, AuthPass |-> AuthPass, Delimiter |-> <<>>,
                    TimeoutSec |-> TimeoutSec])
    /\ scansLeft = 0
    /\ pod \in {NewScanPod(a[1], a[2], AuthPass, d) :
                  a \in {<<"h1", StartPort>>, <<"h2", StartPort + 3>>}, d \in PodDelims}
    /\ codec = IdleCodec

NextPod ==
    \/ Dial
    \/ SendAuth
    \/ ReadAuth
    \/ SendCubes
    \/ ReadCubes
    \/ SendPlanets
    \/ ReadPlanets

SpecPod == InitPod /\ [][NextPod]_vars

\* One round trip through the codec, for every delimiter and payload of the bounds.
InitCodec ==
    /\ NewDiscover([Hosts |-> <<>>, StartPort |-> StartPort, PortStep |-> 0,
                    NumPods |-> 0, AuthPass |-> AuthPass, Delimiter |-> <<>>,
                    TimeoutSec |-> TimeoutSec])
    /\ scansLeft = 0
    /\ pod = IdlePod
    /\ codec \in {[pc |-> "send", delim |-> d, payload |-> p, stream |-> <<>>,
                   out |-> IdleCodec.out] :
                    d \in SeqsUpTo(CodecBytes, MaxDelimLen) \ {<<>>},
                    p \in SeqsUpTo(CodecBytes, MaxPayloadLen)}

NextCodec ==
    \/ CodecSend
    \/ CodecReceive

SpecCodec == InitCodec /\ [][NextCodec]_vars

\* Two replies read back by two readMsg calls, for every delimiter and first
\* payload of the bounds.
InitReads ==
    /\ NewDiscover([Hosts |-> <<>>, StartPort |-> StartPort, PortStep |-> 0,
                    NumPods |-> 0, AuthPass |-> AuthPass, Delimiter |-> <<>>,
                    TimeoutSec |-> TimeoutSec])
    /\ scansLeft = 0
    /\ pod = IdlePod
    /\ codec \in {NewReads(d, p, q) :
                    d \in SeqsUpTo(CodecBytes, MaxDelimLen) \ {<<>>},
                    p \in SeqsUpTo(CodecBytes, MaxPayloadLen),
                    q \in NextReplies}

NextReads ==
    \/ ReadFirst
    \/ ReadSecond

SpecReads == InitReads /\ [][NextReads]_vars

-----------------------------------------------------------------------------
(* Properties of ScanAll and the registry, under Spec.                      *)

\* ScanAll has returned from its first call on a registry made by NewDiscover.
FirstScanReturned == mpc = "idle" /\ hist.calls = 1

\* The PodResults that report success.
Successful == {i \in 1..Len(Results) : Results[i].Success}

\* The planet records of result i.
RecordsOf(i) == {Results[i].Planets[j] : j \in 1..Len(Results[i].Planets)}

\* The cube names of result i.
CubesOf(i) == {Results[i].Cubes[j] : j \in 1..Len(Results[i].Cubes)}

\* The (host, pod index) pairs of the configuration.
Pairs == (1..Len(cfg.Hosts)) \X (0..(cfg.NumPods - 1))

\* The results appended by the call in progress or last returned.
Appended == SubSeq(Results, Len(hist.pre) + 1, Len(Results))

\* C1: after one ScanAll on a fresh registry over h hosts and k pods per host,
\* Results holds exactly k*h PodResults, whatever each pod did.
C1_OneResultPerPair ==
    FirstScanReturned => Len(Results) = cfg.NumPods * Len(cfg.Hosts)

\* A scan of three pods has returned: one refused the connection, one sent a
\* planet reply that is no JSON, one succeeded.
C1_Witness ==
    /\ FirstScanReturned
    /\ Len(Results) = 3
    /\ \E i, j, k \in 1..3 :
          /\ Results[i].Error = "dial tcp: connection refused"
          /\ Results[j].Error = "Planet parse fail"
          /\ Results[k].Success

\* C2: after one ScanAll on a fresh registry, a name is a key of Planets exactly
\* when a successful result lists a planet of that name, a name is a key of Cubes
\* exactly when a successful result lists that cube, the cube is mapped to the Host
\* of such a result, and only successful results were merged into the mappings
\* while every result, failed or not, is in Results.
C2_RegistryFromSuccesses ==
    FirstScanReturned =>
        /\ DOMAIN Planets = UNION {{r.Name : r \in RecordsOf(i)} : i \in Successful}
        /\ DOMAIN Cubes = UNION {CubesOf(i) : i \in Successful}
        /\ \A c \in DOMAIN Cubes :
              Cubes[c] \in {Results[i].Host : i \in {s \in Successful : c \in CubesOf(s)}}
        /\ \A t \in 1..Len(tasks) :
              /\ \E i \in 1..Len(Results) : Results[i] = tasks[t].st.result
              /\ t \in hist.merged <=> tasks[t].st.result.Success
        /\ \A i \in 1..Len(Results) :
              ~Results[i].Success => Results[i].Planets = <<>> /\ Results[i].Cubes = <<>>

\* A scan of three pods has returned with a failed pod and two successful ones
\* that both list cube a; the registry maps a and b to their host and holds P1
\* and P2.
C2_Witness ==
    /\ FirstScanReturned
    /\ Len(Results) = 3
    /\ Cardinality(Successful) = 2
    /\ \A i \in Successful : "'a'" \in CubesOf(i)
    /\ DOMAIN Cubes = {"'a'", "'b'"}
    /\ Cubes["'a'"] = "h1"
    /\ DOMAIN Planets = {"'P1'", "'P2'"}

\* C3: when two successful pods of one scan report a planet of the same name with
\* different coordinates, the registry holds one entry for that name and it is,
\* whole, a record one of the pods of that scan reported for the name.
C3_SameNameWholeRecord ==
    FirstScanReturned =>
        \A i, j \in Successful :
            \A p \in RecordsOf(i), q \in RecordsOf(j) :
                (i # j /\ p.Name = q.Name /\ p.Coordinates # q.Coordinates) =>
                    /\ p.Name \in DOMAIN Planets
                    /\ Planets[p.Name] \in
                          {r \in UNION {RecordsOf(s) : s \in Successful} : r.Name = p.Name}
                    /\ (Cardinality({s \in Successful :
                                       \E r \in RecordsOf(s) : r.Name = p.Name}) = 2
                        /\ Cardinality({r \in RecordsOf(i) \cup RecordsOf(j) :
                                          r.Name = p.Name}) = 2)
                          => Planets[p.Name] \in {p, q}

\* Two pods on different ports reported P1, at (1,2,3) and at (3,0,0); the
\* registry holds the record of the pod whose result was merged second.
C3_Witness ==
    /\ FirstScanReturned
    /\ Len(Results) = 2
    /\ Results[1].Success /\ Results[2].Success
    /\ Results[1].Port # Results[2].Port
    /\ \E p \in RecordsOf(1), q \in RecordsOf(2) :
          /\ p.Name = "'P1'" /\ q.Name = "'P1'"
          /\ p.Coordinates = <<3, 0, 0>> /\ q.Coordinates = <<1, 2, 3>>
          /\ Planets["'P1'"] = q

\* C4: a ScanPod invocation whose authentication reply, as readMsg returned it,
\* does not contain "auth_success" returns Success = false with Error "Bad
\* password", and that result is never merged into Planets or Cubes.
C4_BadPassword ==
    \A t \in 1..Len(tasks) :
        (/\ tasks[t].pc = "done"
         /\ Len(tasks[t].st.reads) >= 1
         /\ ~Contains(tasks[t].st.authMsg, AuthSuccess))
        => /\ ~tasks[t].st.result.Success
           /\ tasks[t].st.result.Error = "Bad password"
           /\ tasks[t].st.result.Planets = <<>>
           /\ tasks[t].st.result.Cubes = <<>>
           /\ t \notin hist.merged
           /\ \A i \in 1..Len(resultsChan) :
                 resultsChan[i].tid = t => resultsChan[i].res = tasks[t].st.result

\* A scan has returned in which one pod answered the password with "nope" and
\* another succeeded: the registry holds what the second reported.
C4_Witness ==
    /\ FirstScanReturned
    /\ \E t, u \in 1..Len(tasks) :
          /\ tasks[t].st.authMsg = <<"nope">>
          /\ tasks[t].st.reads = <<"delim">>
          /\ tasks[u].st.result.Success
    /\ DOMAIN Planets # {}

\* C9: a ScanAll launches one ScanPod per pair (host, i), for port StartPort +
\* i*PortStep, and the results it appends have, as a multiset, the (Host, Port)
\* of those pairs: also when PortStep is 0 or a host is listed twice.
C9_OneInvocationPerPair ==
    (mpc = "idle" /\ hist.calls >= 1) =>
        /\ Len(tasks) = Cardinality(Pairs)
        /\ Len(Appended) = Cardinality(Pairs)
        /\ \A h \in {"h1", "h2"}, p \in {cfg.StartPort + i * s : i \in 0..MaxTasks, s \in PortSteps} :
              LET n == Cardinality({pr \in Pairs :
                                      /\ cfg.Hosts[pr[1]] = h
                                      /\ cfg.StartPort + pr[2] * cfg.PortStep = p})
              IN  /\ Cardinality({t \in 1..Len(tasks) :
                                    tasks[t].host = h /\ tasks[t].port = p}) = n
                  /\ Cardinality({i \in 1..Len(Appended) :
                                    Appended[i].Host = h /\ Appended[i].Port = p}) = n

\* A scan with PortStep 0 and three pods on one host has returned: three results
\* for the same address.
C9_Witness ==
    /\ mpc = "idle" /\ hist.calls = 1
    /\ cfg.PortStep = 0 /\ cfg.NumPods = 3 /\ cfg.Hosts = <<"h1">>
    /\ Len(Results) = 3
    /\ \A i \in 1..3 : Results[i].Host = "h1" /\ Results[i].Port = cfg.StartPort

\* C10: over any sequence of ScanAll calls on one registry, no step removes or
\* changes an entry of Results or removes a key of Planets or Cubes, and a call
\* returns with Results longer by k*h than when it was called.
C10_RegistryGrows ==
    [][/\ IsPrefix(Results, Results')
       /\ DOMAIN Planets \subseteq DOMAIN Planets'
       /\ DOMAIN Cubes \subseteq DOMAIN Cubes'
       /\ (mpc # "idle" /\ mpc' = "idle") =>
             Len(Results') = Len(hist.pre) + cfg.NumPods * Len(cfg.Hosts)]_vars

\* The second call on a registry has returned: its pod failed where the pod of the
\* first call had succeeded, and the registry still holds what the first merged.
C10_Witness ==
    /\ mpc = "idle" /\ hist.calls = 2
    /\ Len(Results) = 2
    /\ Results[1].Success /\ ~Results[2].Success
    /\ hist.pre = <<Results[1]>>
    /\ "'P1'" \in DOMAIN Planets
    /\ "'a'" \in DOMAIN Cubes

\* The pod tasks of the scan that have delivered their result.
Delivered == {t \in 1..Len(tasks) : tasks[t].pc = "done"}

\* C14: during ScanAll, Results, Planets and Cubes are written only when every pod
\* task of the scan has been launched and has finished; the merges happen one
\* result at a time, each within one holding of the lock.
C14_MergeAfterAllTasks ==
    [][(Results' # Results \/ Planets' # Planets \/ Cubes' # Cubes) =>
          /\ Len(tasks) = Cardinality(Pairs)
          /\ Delivered = 1..Len(tasks)
          /\ wg = 0
          /\ mu = "ScanAll" /\ mu' = "ScanAll"
          /\ Results' = Append(Results, cur.res)
          /\ cur.tid \in Delivered]_vars

\* The second of three results has been merged and the lock is still held.
C14_Witness ==
    /\ mpc = "unlock"
    /\ mu = "ScanAll"
    /\ Len(tasks) = 3
    /\ Len(Appended) = 2
    /\ "'a'" \in DOMAIN Cubes

\* C15: the number of PodResults in the channel never exceeds its capacity
\* NumPods * len(Hosts), so a pod task that has its result never waits to deliver
\* it, although nothing is received before all tasks have finished.
C15_ChannelHasRoom ==
    /\ Len(resultsChan) <= cfg.NumPods * Len(cfg.Hosts)
    /\ \A t \in 1..Len(tasks) :
          (tasks[t].pc = "scan" /\ mpc # "crashed") => ENABLED PodTask(t)
    /\ Len(resultsChan) < Cardinality(Delivered) =>
          (Delivered = 1..Len(tasks) /\ chanClosed)

\* Three tasks have delivered and the channel is full; nothing was received yet.
C15_Witness ==
    /\ mpc = "launch"
    /\ Len(resultsChan) = 3
    /\ cfg.NumPods * Len(cfg.Hosts) = 3
    /\ Cardinality(Delivered) = 3

\* The cube names that the tasks reporting success list, each with the task's host.
CubesOfSuccesses ==
    UNION { {<<tasks[t].st.result.Cubes[j], tasks[t].host>> :
               j \in 1..Len(tasks[t].st.result.Cubes)} :
            t \in {d \in Delivered : tasks[d].st.result.Success} }

\* C19: a failed handshake is all-or-nothing: every PodResult with Success false
\* has empty Cubes and empty Planets, and a pod whose cube list was parsed and
\* whose planet step failed contributes no cube to its PodResult or, after one
\* ScanAll on a fresh registry, to the registry.
C19_FailureContributesNothing ==
    /\ \A t \in Delivered :
          ~tasks[t].st.result.Success =>
              /\ tasks[t].st.result.Cubes = <<>>
              /\ tasks[t].st.result.Planets = <<>>
              /\ t \notin hist.merged
    /\ \A i \in 1..Len(Results) :
          ~Results[i].Success => (Results[i].Cubes = <<>> /\ Results[i].Planets = <<>>)
    /\ hist.calls = 1 =>
          \A c \in DOMAIN Cubes : <<c, Cubes[c]>> \in CubesOfSuccesses

\* A scan of two hosts has returned: the pod of h2 had listed cube a and then
\* failed at the planet step, the pod of h1 succeeded; cube a is mapped to h1.
C19_Witness ==
    /\ FirstScanReturned
    /\ Len(tasks) = 2
    /\ \E t \in 1..2 :
          /\ tasks[t].host = "h2"
          /\ tasks[t].st.cubes = <<"'a'">>
          /\ tasks[t].st.result.Error = "Planet parse fail"
    /\ \E t \in 1..2 : tasks[t].host = "h1" /\ tasks[t].st.result.Success
    /\ \A c \in DOMAIN Cubes : Cubes[c] = "h1"
    /\ "'a'" \in DOMAIN Cubes

\* C16: ScanAll eventually returns for every pod behaviour, a pod that never sends
\* or never reads a byte included (each connect, framed write and framed read
\* completing or failing within the configured timeout): every call made with a
\* non-empty delimiter returns.
C16_ScanAllReturns ==
    (mpc = "launch" /\ cfg.Delimiter # <<>>) ~> (mpc = "idle")

\* What does hold under SpecFair: such a call returns unless the write of one of
\* its pod tasks never completes.
ReturnsUnlessBlocked ==
    (mpc = "launch" /\ cfg.Delimiter # <<>>) ~>
        (mpc = "idle" \/ \E t \in 1..Len(tasks) : tasks[t].pc = "blocked")

\* The pod tasks whose ScanPod has ended, by a return or otherwise.
Ended == {t \in 1..Len(tasks) : tasks[t].pc # "scan"}

\* With an empty delimiter a task that connected and sent the auth secret has
\* faulted in its first readMsg: it has read nothing and returned no PodResult,
\* the program has ended with it, and the scan has recorded no result.
EmptyDelimiterFaults ==
    cfg.Delimiter = <<>> =>
        /\ \A t \in Ended :
              tasks[t].st.sent # <<>> =>
                  /\ tasks[t].pc = "panic"
                  /\ tasks[t].st.sent = <<cfg.AuthPass>>
                  /\ tasks[t].st.reads = <<>>
                  /\ tasks[t].st.result = NoResult
                  /\ mpc = "crashed"
        /\ mpc = "crashed" =>
              /\ Results = hist.pre
              /\ Cardinality(Pairs) > 0
              /\ \E t \in Ended : tasks[t].pc = "panic"

\* With a non-empty delimiter every invocation that has ended has returned: it
\* left a PodResult for its own address, and the program goes on.
NonEmptyDelimiterReturns ==
    cfg.Delimiter # <<>> =>
        /\ mpc # "crashed"
        /\ \A t \in Ended :
              /\ tasks[t].pc = "done"
              /\ tasks[t].st.pc = "done"
              /\ tasks[t].st.result # NoResult
              /\ tasks[t].st.result.Host = tasks[t].host
              /\ tasks[t].st.result.Port = tasks[t].port

\* With a non-empty delimiter no invocation faults: one that has ended has
\* returned its PodResult or is held for ever in a write.
NonEmptyDelimiterNeverFaults ==
    cfg.Delimiter # <<>> =>
        /\ mpc # "crashed"
        /\ \A t \in Ended :
              \/ tasks[t].pc = "blocked" /\ tasks[t].st.result = NoResult
              \/ /\ tasks[t].pc = "done"
                 /\ tasks[t].st.result # NoResult
                 /\ tasks[t].st.result.Host = tasks[t].host
                 /\ tasks[t].st.result.Port = tasks[t].port

\* C21: with an empty Delimiter a pod task that connects and sends the auth secret
\* faults in its first readMsg instead of returning a PodResult, so the scan does
\* not reach the state in which its k*h results are recorded; with any non-empty
\* delimiter every ScanPod invocation returns exactly one PodResult.
C21_FaultOnlyOnEmptyDelimiter ==
    EmptyDelimiterFaults /\ NonEmptyDelimiterReturns

-----------------------------------------------------------------------------
(* Properties of one ScanPod invocation, under SpecPod.                     *)

\* C5: when the read deadline expires during one of the three reads of an
\* invocation, whatever bytes the pod had delivered by then, the invocation
\* returns Success = false with a non-empty Error.
C5_TimeoutFails ==
    (pod.pc = "done" /\ \E i \in 1..Len(pod.reads) : pod.reads[i] = "timeout")
        => ~pod.result.Success /\ pod.result.Error # ""

\* The planet reply as a JSON value, its group keys and the value of a group.
PlanetDoc == ParseDoc(pod.planetMsg)
GroupKeys == MemberKeys(PlanetDoc.v.m)
GroupOf(k) == MemberGet(PlanetDoc.v.m, k)

\* The reply is a mapping from group keys to lists of planet objects.
GroupsOfPlanetObjects ==
    /\ PlanetDoc.ok
    /\ PlanetDoc.v.k = "obj"
    /\ \A k \in GroupKeys :
          /\ GroupOf(k).k = "arr"
          /\ \A i \in 1..Len(GroupOf(k).a) : GroupOf(k).a[i].k = "obj"

\* The planet objects of the reply: <<k, i>> is the i-th of group k.
PlanetObjects == UNION {{<<k, i>> : i \in 1..Len(GroupOf(k).a)} : k \in GroupKeys}

\* The string a planet object holds under Name, "" when it holds none.
NameIn(o) ==
    LET is == {i \in 1..Len(o.m) : o.m[i].key \in NameKeys /\ o.m[i].val.k = "str"}
    IN  IF is = {} THEN ""
        ELSE o.m[CHOOSE i \in is : \A j \in is : j <= i].val.s

\* The number a planet object holds under an axis of its Position, 0 when the
\* Position or the axis is missing.
AxisIn(o, axis) ==
    LET pos == MemberGet(o.m, "'Position'")
        v == MemberGet(pos.m, axis)
    IN  IF pos.k = "obj" /\ v.k = "num" THEN v.n ELSE 0

\* The record the claim gives for planet object e.
RecordFor(e) ==
    LET o == GroupOf(e[1]).a[e[2]] IN
    [Name |-> NameIn(o),
     Coordinates |-> <<AxisIn(o, "'x'"), AxisIn(o, "'y'"), AxisIn(o, "'z'")>>,
     Host |-> pod.host,
     Port |-> pod.port]

\* C7: for a planet reply that decodes as a mapping from group keys to lists of
\* planet objects, the result holds exactly one PlanetRecord per planet object:
\* its Name the object's, its Coordinates the x, y, z of the object's Position
\* with 0 for a missing axis or a missing Position, its Host and Port those the
\* invocation was called with; nothing of the group key is kept.
C7_OneRecordPerPlanet ==
    (pod.pc = "done" /\ pod.result.Success /\ GroupsOfPlanetObjects) =>
        /\ Len(pod.result.Planets) = Cardinality(PlanetObjects)
        /\ \A e \in PlanetObjects :
              Cardinality({i \in 1..Len(pod.result.Planets) :
                             pod.result.Planets[i] = RecordFor(e)})
                = Cardinality({f \in PlanetObjects : RecordFor(f) = RecordFor(e)})
        /\ \A i \in 1..Len(pod.result.Planets) :
              DOMAIN pod.result.Planets[i] = {"Name", "Coordinates", "Host", "Port"}

\* The pod at h2:14003 answered with two groups: P1 with only x, P2 without a
\* Position, and an object with a Host of its own, a lower-case name key and a
\* null z.  The range visited g2 first.
C7_Witness ==
    /\ pod.pc = "done"
    /\ pod.result.Success
    /\ pod.planetMsg = PlanetTwoGroups
    /\ pod.host = "h2"
    /\ pod.result.Planets =
          << [Name |-> "'P2'", Coordinates |-> <<0, 0, 0>>, Host |-> "h2",
              Port |-> StartPort + 3],
             [Name |-> "'P1'", Coordinates |-> <<0, 2, 0>>, Host |-> "h2",
              Port |-> StartPort + 3],
             [Name |-> "'P1'", Coordinates |-> <<3, 0, 0>>, Host |-> "h2",
              Port |-> StartPort + 3] >>

\* The cube reply as a JSON value.
CubeDoc == ParseDoc(pod.cubeMsg)

\* The string elements, in order, of the list under "cubes"; none when the key is
\* absent or holds no list.
CubeStrings ==
    LET v == MemberGet(CubeDoc.v.m, "'cubes'")
        strs == SelectSeq(v.a, LAMBDA e : e.k = "str")
    IN  IF v.k = "arr" THEN [i \in 1..Len(strs) |-> strs[i].s] ELSE <<>>

\* C8: when the cube reply is a JSON object, the cubes of the invocation are the
\* string elements of the list under "cubes", in order, the other elements
\* dropped; when the key is absent or holds no list there are none, and in both
\* cases the handshake goes on to the planet step instead of failing.
C8_CubeStrings ==
    (Len(pod.reads) >= 2 /\ CubeDoc.ok /\ CubeDoc.v.k = "obj") =>
        /\ pod.cubes = CubeStrings
        /\ pod.pc \in {"sendPlanets", "readPlanets", "done", "blocked"}
        /\ pod.result.Error \in {"", "Planet req fail", "Planet parse fail"}
        /\ (pod.pc = "done" /\ pod.result.Success) => pod.result.Cubes = CubeStrings

\* The pod answered the cube request with a list of b, 1, null, a and [c], and the
\* invocation succeeded with the cubes b and a.
C8_Witness ==
    /\ pod.pc = "done"
    /\ pod.result.Success
    /\ pod.cubeMsg = CubesMixed
    /\ pod.result.Cubes = <<"'b'", "'a'">>

\* C11: every PodResult that ScanPod returns, on every path, has a non-empty
\* Error exactly when its Success is false.
C11_ErrorIffFailure ==
    pod.pc = "done" => (pod.result.Error # "" <=> ~pod.result.Success)

\* An invocation has failed at its last write, after two replies were read.
C11_Witness ==
    /\ pod.pc = "done"
    /\ ~pod.result.Success
    /\ pod.result.Error = "Planet req fail"
    /\ Len(pod.reads) = 2

\* C12: an invocation opens at most one connection (it connects only at its first
\* step, and a connection once closed is not opened again), and whenever it has
\* returned after a successful connect, by an auth, request or parse failure or
\* by success, the connection is closed.
C12_ConnectionClosed ==
    [][/\ pod'.pc = "done" => pod'.conn # "open"
       /\ (pod'.pc = "done" /\ pod'.sent # <<>>) => pod'.conn = "closed"
       /\ pod'.conn = "none" => (pod'.sent = <<>> /\ pod'.reads = <<>>)
       /\ (pod.conn # "open" /\ pod'.conn = "open") =>
             (pod.pc = "dial" /\ pod.conn = "none")
       /\ pod.conn = "closed" => pod'.conn = "closed"]_vars

\* An invocation has returned "Cube parse fail" with its connection closed.
C12_Witness ==
    /\ pod.pc = "done"
    /\ pod.result.Error = "Cube parse fail"
    /\ pod.conn = "closed"
    /\ Len(pod.sent) = 2

\* The three messages of an invocation, in the order of the protocol.
Requests ==
    << Framed(pod.auth, pod.delim), Framed(CubeListRequest, pod.delim),
       Framed(PlanetsRequest, pod.delim) >>

AuthReplyHasSuccess == Contains(pod.authMsg, AuthSuccess)

CubeReplyIsObject ==
    ParseDoc(pod.cubeMsg).ok /\ ParseDoc(pod.cubeMsg).v.k = "obj"

CubeReplyIsNull ==
    ParseDoc(pod.cubeMsg).ok /\ ParseDoc(pod.cubeMsg).v.k = "null"

\* Where an invocation that is still running stands: what it has sent and read
\* so far, every step before its position having succeeded.
StepOrder ==
    /\ Len(pod.sent) <= 3
    /\ pod.sent = SubSeq(Requests, 1, Len(pod.sent))
    /\ Len(pod.reads) <= Len(pod.sent)
    /\ Len(pod.sent) <= Len(pod.reads) + 1
    /\ pod.sent # <<>> => pod.conn # "none"
    /\ pod.pc = "dial" => pod.conn = "none"
    /\ pod.pc = "sendAuth" => (Len(pod.sent) = 0 /\ pod.conn = "open")
    /\ pod.pc = "readAuth" => (Len(pod.sent) = 1 /\ Len(pod.reads) = 0)
    /\ pod.pc = "sendCubes" => (Len(pod.sent) = 1 /\ Len(pod.reads) = 1)
    /\ pod.pc = "readCubes" => (Len(pod.sent) = 2 /\ Len(pod.reads) = 1)
    /\ pod.pc = "sendPlanets" => (Len(pod.sent) = 2 /\ Len(pod.reads) = 2)
    /\ pod.pc = "readPlanets" => (Len(pod.sent) = 3 /\ Len(pod.reads) = 2)
    /\ pod.pc = "blocked" => Len(pod.sent) = Len(pod.reads)
    /\ (pod.pc = "done" /\ pod.result.Success) =>
           (Len(pod.sent) = 3 /\ Len(pod.reads) = 3)
    /\ Len(pod.sent) >= 2 => AuthReplyHasSuccess

\* C13 as stated: the steps of an invocation occur only in the order connect, send
\* auth, read auth, send cube request, read cube reply, send planets request, read
\* planets reply, the first failing step ending it; the cube request is sent only
\* after an auth reply containing auth_success and the planets request only after
\* a cube reply that was parsed as a JSON object.
C13_StepsAsStated ==
    StepOrder /\ (Len(pod.sent) >= 3 => CubeReplyIsObject)

\* C13, amended: as above, the planets request being sent only after a cube reply
\* that decoded without error: a JSON object or the JSON literal null.
C13_StepsInOrder ==
    StepOrder /\ (Len(pod.sent) >= 3 => (CubeReplyIsObject \/ CubeReplyIsNull))

\* The planets request has gone out after the cube reply null.
C13_Witness ==
    /\ Len(pod.sent) = 3
    /\ AuthReplyHasSuccess
    /\ pod.cubeMsg = <<"null">>

\* The Error that the first failing step of a failed invocation stands for, from
\* what the invocation had sent and read when it returned; cubeOk says whether the
\* cube reply counts as decoded.
ErrorOfFirstFailure(cubeOk) ==
    IF Len(pod.sent) = 0 THEN "Auth failed"
    ELSE IF Len(pod.sent) = 1 THEN
        (IF ~AuthReplyHasSuccess THEN "Bad password" ELSE "Cube req fail")
    ELSE IF Len(pod.sent) = 2 THEN
        (IF ~cubeOk THEN "Cube parse fail" ELSE "Planet req fail")
    ELSE "Planet parse fail"

FailureIsOfOneStep(cubeOk) ==
    IF pod.conn = "none"
    THEN pod.result.Error \in DialErrors /\ pod.sent = <<>>
    ELSE /\ pod.result.Error = ErrorOfFirstFailure(cubeOk)
         /\ Len(pod.reads) = Len(pod.sent)
         /\ pod.result.Error = "Planet parse fail" =>
                UnmarshalPlanets(pod.planetMsg).err

\* C17 as stated: the Error of a failed PodResult is determined by the first failing
\* step alone: the dial error text, "Auth failed", "Bad password", "Cube req fail",
\* "Cube parse fail" for a cube reply that is not a JSON object, "Planet req fail",
\* "Planet parse fail" for a planet reply that does not decode; there is no other.
C17_ErrorAsStated ==
    (pod.pc = "done" /\ ~pod.result.Success) => FailureIsOfOneStep(CubeReplyIsObject)

\* C17, amended: as above, with "Cube parse fail" for a cube reply that is neither
\* a JSON object nor the JSON literal null.
C17_ErrorOfFirstFailure ==
    (pod.pc = "done" /\ ~pod.result.Success) =>
        FailureIsOfOneStep(CubeReplyIsObject \/ CubeReplyIsNull)

\* The write of the planets request has failed after the cube reply null.
C17_Witness ==
    /\ pod.pc = "done"
    /\ pod.result.Error = "Planet req fail"
    /\ pod.cubeMsg = <<"null">>

-----------------------------------------------------------------------------
(* Properties of the codec round trip, under SpecCodec.                     *)

\* C6 as stated: for a non-empty delimiter d and a payload p that does not contain
\* d, readMsg of the bytes sendMsg wrote for p returns p with the whitespace
\* around it trimmed.
C6_RoundTripAsStated ==
    (codec.pc = "done" /\ ~Contains(codec.payload, codec.delim))
        => codec.out.msg = TrimSpace(codec.payload)

\* C6, amended: for a non-empty delimiter d and a payload p such that d occurs in
\* the bytes p+d only as their last Len(d) bytes (d is not in p and does not
\* begin inside p), readMsg of the bytes sendMsg wrote for p stops at the
\* delimiter and returns p with the whitespace around it trimmed.
C6_RoundTrip ==
    (codec.pc = "done"
     /\ Index(codec.payload \o codec.delim, codec.delim) = Len(codec.payload) + 1)
        => /\ codec.out.msg = TrimSpace(codec.payload)
           /\ codec.out.stop = "delim"
           /\ codec.out.lost = <<>>

\* The payload " ab" framed with the delimiter "ba" was read back as "ab".
C6_Witness ==
    /\ codec.pc = "done"
    /\ codec.delim = <<"b", "a">>
    /\ codec.payload = <<" ", "a", "b">>
    /\ codec.stream = <<" ", "a", "b", "b", "a">>
    /\ codec.out.msg = <<"a", "b">>

\* C18: whenever readMsg stops because its buffer contains the non-empty
\* delimiter, the buffer is exactly the prefix of the stream up to and including
\* the first complete occurrence of the delimiter: the delimiter occurs in it
\* once, as its suffix, and the returned value is the bytes before that
\* occurrence, trimmed, never two messages together.
C18_StopsAtFirstDelimiter ==
    (codec.pc = "done" /\ codec.out.stop = "delim") =>
        LET k == Index(codec.stream, codec.delim) IN
        /\ k > 0
        /\ codec.out.buf = SubSeq(codec.stream, 1, k + Len(codec.delim) - 1)
        /\ Index(codec.out.buf, codec.delim) = k
        /\ \A i \in 1..(Len(codec.out.buf) - Len(codec.delim) + 1) :
              SubSeq(codec.out.buf, i, i + Len(codec.delim) - 1) = codec.delim => i = k
        /\ codec.out.msg = TrimSpace(SubSeq(codec.stream, 1, k - 1))

\* The stream "baba" arrived in one Read and was read with the delimiter "a": the
\* read stopped with the buffer "ba" and returned "b".
C18_Witness ==
    /\ codec.pc = "done"
    /\ codec.delim = <<"a">>
    /\ codec.stream = <<"b", "a", "b", "a">>
    /\ codec.out.stop = "delim"
    /\ codec.out.buf = <<"b", "a">>
    /\ codec.out.msg = <<"b">>
    /\ codec.out.lost = <<"b", "a">>

-----------------------------------------------------------------------------
(* Properties of two consecutive reads, under SpecReads.                    *)

\* The pod's two replies arrived in one run, and the first of them ends at the
\* first delimiter of the stream.
ArrivedTogether ==
    /\ codec.runs = <<codec.stream>>
    /\ Index(codec.payload \o codec.delim, codec.delim) = Len(codec.payload) + 1

\* C20: each readMsg reads through a buffered reader of its own, and the bytes that
\* reader took from the connection beyond the chunk that completed the delimiter
\* are discarded with it: the next readMsg sees only the bytes no Read had taken,
\* and when the pod's next reply arrived together with the current one, the next
\* readMsg does not return that reply.
C20_NextReplyLost ==
    codec.pc = "done" =>
        /\ codec.out.buf \o codec.out.lost \o codec.out.rest = codec.stream
        /\ codec.out2.buf \o codec.out2.lost \o codec.out2.rest = codec.out.rest
        /\ ArrivedTogether =>
              /\ codec.out.msg = TrimSpace(codec.payload)
              /\ codec.out.lost = Framed(codec.next, codec.delim)
              /\ codec.out2.msg # TrimSpace(codec.next)
              /\ codec.out2.msg = <<>>
              /\ codec.out2.stop # "delim"

\* The replies "a" and "b", framed with " ", arrived as "a b " in one run: the
\* first readMsg returned "a" and its reader took "b " along; the second found
\* nothing to read.
C20_Witness ==
    /\ codec.pc = "done"
    /\ codec.delim = <<" ">>
    /\ codec.payload = <<"a">>
    /\ codec.next = <<"b">>
    /\ codec.runs = <<<<"a", " ", "b", " ">>>>
    /\ codec.out.msg = <<"a">>
    /\ codec.out.lost = <<"b", " ">>
    /\ codec.out2.msg = <<>>

=============================================================================
